---- MODULE Spec2Model ----
(***************************************************************************)
(* A model of the shader optimizer of src/main.py.                         *)
(*                                                                         *)
(* A text is a sequence of one-character strings; offsets are 0-based as   *)
(* in the Python source (Slice(s, a, b) is s[a:b]).  Every regular         *)
(* expression of the source is modelled by a matcher that follows the      *)
(* expression item by item; re.finditer is FindAll (leftmost,              *)
(* non-overlapping matches).                                               *)
(***************************************************************************)
EXTENDS Integers, Sequences, FiniteSets, TLC

(* ------------------------------ bounds -------------------------------- *)

\* At most this many fragments are concatenated into an input text.
MaxFrags == 3

\* Longest text of the character-level input set of the Lexical-Stripper.
MaxLen == 5

(* ------------------------- program constants -------------------------- *)

\* len(body) < 50 in inline_functions and unroll_loops
SMALL_BODY == 50

(* --------------------------- characters ------------------------------- *)

Digits == {"0", "1", "2", "3", "4", "5", "6", "7", "8", "9"}

Letters ==
    {"a", "b", "c", "d", "e", "f", "g", "h", "i", "j", "k", "l", "m",
     "n", "o", "p", "q", "r", "s", "t", "u", "v", "w", "x", "y", "z",
     "A", "B", "C", "D", "E", "F", "G", "H", "I", "J", "K", "L", "M",
     "N", "O", "P", "Q", "R", "S", "T", "U", "V", "W", "X", "Y", "Z"}

\* \w
WordChars == Letters \cup Digits \cup {"_"}

\* \s
SpaceChars == {" ", "\t", "\n", "\r", "\f"}

(* ----------------------------- evaluation ------------------------------ *)

\* the element of a set of one element; in The({e : x \in {value}}) the value
\* is computed once and e uses it as x, like a local variable of the program
The(S) == CHOOSE x \in S : TRUE

(* ----------------------------- slices --------------------------------- *)

Min(a, b) == IF a < b THEN a ELSE b

\* s[a:b] of Python for 0 <= a: out-of-range ends are clamped
Slice(s, a, b) ==
    IF a >= Min(b, Len(s)) THEN << >> ELSE SubSeq(s, a + 1, Min(b, Len(s)))

\* s[a:]
SliceFrom(s, a) == Slice(s, a, Len(s))

\* s[i] for 0 <= i < len(s)
At(s, i) == s[i + 1]

\* the character at offset i is in the class C (false at the end of the text)
InClass(s, i, C) == i < Len(s) /\ At(s, i) \in C

\* the literal lit stands at offset i of s
LitAt(s, i, lit) == Slice(s, i, i + Len(lit)) = lit

\* a greedy run C* from offset i: the offset after it
SkipSet(s, i, C) ==
    LET skip[j \in Nat] == IF InClass(s, j, C) THEN skip[j + 1] ELSE j
    IN  skip[i]

\* a greedy run [^C]* from offset i: the offset after it
SkipNot(s, i, C) ==
    LET skip[j \in Nat] ==
            IF j < Len(s) /\ At(s, j) \notin C THEN skip[j + 1] ELSE j
    IN  skip[i]

\* ''.join(texts)
Concat(texts) ==
    LET join[k \in Nat] ==
            IF k > Len(texts) THEN << >> ELSE texts[k] \o join[k + 1]
    IN  join[1]

\* sep.join(texts)
Join(sep, texts) ==
    LET join[k \in Nat] ==
            IF k > Len(texts) THEN << >>
            ELSE IF k = Len(texts) THEN texts[k]
            ELSE texts[k] \o sep \o join[k + 1]
    IN  join[1]

(* ------------------------- regular expressions ------------------------- *)

\* The items of a regular expression.  In every expression built from them
\* below, an item cannot match a character that the item after it can start
\* with, so the greedy choice is the only one and no backtracking is needed.

\* \b
Boundary == [kind |-> "boundary", class |-> {}, text |-> << >>]

\* C+
Plus(C) == [kind |-> "plus", class |-> C, text |-> << >>]

\* C*
Star(C) == [kind |-> "star", class |-> C, text |-> << >>]

\* [^C]*
StarNot(C) == [kind |-> "star_not", class |-> C, text |-> << >>]

\* c?
Opt(c) == [kind |-> "opt", class |-> {c}, text |-> << >>]

\* the literal text lit
Text(lit) == [kind |-> "text", class |-> {}, text |-> lit]

\* \b at offset i
WordBoundary(s, i) ==
    (i > 0 /\ At(s, i - 1) \in WordChars) # InClass(s, i, WordChars)

\* the offset after the item matched at offset p, or -1 when it does not match
ItemEnd(s, item, p) ==
    CASE item.kind = "boundary" -> IF WordBoundary(s, p) THEN p ELSE -1
      [] item.kind = "plus" ->
             IF InClass(s, p, item.class) THEN SkipSet(s, p, item.class)
             ELSE -1
      [] item.kind = "star" -> SkipSet(s, p, item.class)
      [] item.kind = "star_not" -> SkipNot(s, p, item.class)
      [] item.kind = "opt" -> IF InClass(s, p, item.class) THEN p + 1 ELSE p
      [] item.kind = "text" ->
             IF LitAt(s, p, item.text) THEN p + Len(item.text) ELSE -1

\* the offsets after the items k, k + 1, ... matched one after the other from
\* offset p; the list ends with -1 at the first item that does not match
RECURSIVE ItemEnds(_, _, _, _)
ItemEnds(s, items, k, p) ==
    IF k > Len(items) THEN << >>
    ELSE The({IF q = -1 THEN <<-1>> ELSE <<q>> \o ItemEnds(s, items, k + 1, q) :
              q \in {ItemEnd(s, items[k], p)}})

\* the value of a failed match
NoMatch == [start |-> -1, end |-> -1, groups |-> << >>]

\* the match of the items at offset i; groups names, for each group of the
\* expression, the item it encloses
ItemsMatch(s, items, groups, i) ==
    The({IF ends[Len(ends)] = -1 THEN NoMatch
         ELSE [start |-> i, end |-> ends[Len(ends)],
               groups |-> [g \in 1 .. Len(groups) |->
                              Slice(s, ends[groups[g] - 1], ends[groups[g]])]] :
         ends \in {ItemEnds(s, items, 1, i)}})

\* \s*\[?\s*(\d*)\s*\]?\s*;
ArrayAndSemicolon ==
    <<Star(SpaceChars), Opt("["), Star(SpaceChars), Star(Digits),
      Star(SpaceChars), Opt("]"), Star(SpaceChars), Text(<<";">>)>>

\* \s*\([^)]*\)\s*\{
ParametersAndBrace ==
    <<Star(SpaceChars), Text(<<"(">>), StarNot({")"}), Text(<<")">>),
      Star(SpaceChars), Text(<<"{">>)>>

\* var_decl_pattern = r'\b(\w+)\s+(\w+)\s*\[?\s*(\d*)\s*\]?\s*;'
var_decl_pattern(s, i) ==
    ItemsMatch(s,
               <<Boundary, Plus(WordChars), Plus(SpaceChars), Plus(WordChars)>>
                   \o ArrayAndSemicolon,
               <<2, 4, 8>>, i)

\* uniform_pattern = r'\buniform\s+(\w+)\s+(\w+)\s*\[?\s*(\d*)\s*\]?\s*;'
uniform_pattern(s, i) ==
    ItemsMatch(s,
               <<Boundary, Text(<<"u", "n", "i", "f", "o", "r", "m">>),
                 Plus(SpaceChars), Plus(WordChars), Plus(SpaceChars),
                 Plus(WordChars)>> \o ArrayAndSemicolon,
               <<4, 6, 10>>, i)

\* function_pattern = r'\b(\w+)\s+(\w+)\s*\([^)]*\)\s*\{'
function_pattern(s, i) ==
    ItemsMatch(s,
               <<Boundary, Plus(WordChars), Plus(SpaceChars), Plus(WordChars)>>
                   \o ParametersAndBrace,
               <<2, 4>>, i)

\* loop_pattern = r'\bfor\s*\([^)]*\)\s*\{'
loop_pattern(s, i) ==
    ItemsMatch(s, <<Boundary, Text(<<"f", "o", "r">>)>> \o ParametersAndBrace,
               << >>, i)

\* texture_pattern = r'\btexture\([^)]*\)'
texture_pattern(s, i) ==
    ItemsMatch(s,
               <<Boundary, Text(<<"t", "e", "x", "t", "u", "r", "e", "(">>),
                 StarNot({")"}), Text(<<")">>)>>,
               << >>, i)

\* r'//.*'  (. is every character but the newline)
line_comment_pattern(s, i) ==
    ItemsMatch(s, <<Text(<<"/", "/">>), StarNot({"\n"})>>, << >>, i)

\* r'\s+'
space_run_pattern(s, i) == ItemsMatch(s, <<Plus(SpaceChars)>>, << >>, i)

\* r'/\*[^*]*\*+(?:[^/*][^*]*\*+)*/' : after /\*[^*]* each turn takes a run
\* \*+ and then ends at a /, or goes on over [^/*][^*]* to the next run
block_comment_pattern(s, i) ==
    LET turn[p \in Nat] ==
            The({IF stars = p THEN -1
                 ELSE IF InClass(s, stars, {"/"}) THEN stars + 1
                 ELSE IF stars >= Len(s) THEN -1
                 ELSE turn[SkipNot(s, stars + 1, {"*"})] :
                 stars \in {SkipSet(s, p, {"*"})}})
    IN  The({IF end = -1 THEN NoMatch
             ELSE [start |-> i, end |-> end, groups |-> << >>] :
             end \in {IF LitAt(s, i, <<"/", "*">>)
                      THEN turn[SkipNot(s, i + 2, {"*"})]
                      ELSE -1}})

\* r'^\s+|\s+$' : a run at offset 0, or a run that reaches the end of the
\* text ($ is the end of the text or the offset before a last newline, and a
\* greedy \s+ that meets that newline takes it)
ends_pattern(s, i) ==
    The({IF end > i /\ (i = 0 \/ end = Len(s))
         THEN [start |-> i, end |-> end, groups |-> << >>]
         ELSE NoMatch :
         end \in {SkipSet(s, i, SpaceChars)}})

\* r'\n\s*\n' : \s* is greedy and gives characters back until a newline
\* follows, so the match ends after the last newline of the whitespace run
\* that follows its first newline
empty_lines_pattern(s, i) ==
    LET back[j \in Nat] ==
            IF j <= i + 1 THEN -1
            ELSE IF At(s, j - 1) = "\n" THEN j
            ELSE back[j - 1]
    IN  IF InClass(s, i, {"\n"})
        THEN The({IF end = -1 THEN NoMatch
                  ELSE [start |-> i, end |-> end, groups |-> << >>] :
                  end \in {back[SkipSet(s, i + 1, SpaceChars)]}})
        ELSE NoMatch

\* the text that unroll_loop replaces
LOOP_HEADER ==
    <<"f", "o", "r", " ", "(", "i", "n", "t", " ", "i", " ", "=", " ", "0",
      ";", " ", "i", " ", "<", " ", "1", "0", ";", " ", "i", "+", "+", ")">>

\* str.replace(old, new) takes the occurrences of old as re.sub takes the
\* matches of the pattern that is the literal text old
loop_header_pattern(s, i) == ItemsMatch(s, <<Text(LOOP_HEADER)>>, << >>, i)

\* one attempt of a pattern of the program at offset i of s
MatchAt(pat, s, i) ==
    CASE pat = "var_decl" -> var_decl_pattern(s, i)
      [] pat = "uniform" -> uniform_pattern(s, i)
      [] pat = "function" -> function_pattern(s, i)
      [] pat = "loop" -> loop_pattern(s, i)
      [] pat = "texture" -> texture_pattern(s, i)
      [] pat = "line_comment" -> line_comment_pattern(s, i)
      [] pat = "block_comment" -> block_comment_pattern(s, i)
      [] pat = "ends" -> ends_pattern(s, i)
      [] pat = "space_run" -> space_run_pattern(s, i)
      [] pat = "empty_lines" -> empty_lines_pattern(s, i)
      [] pat = "loop_header" -> loop_header_pattern(s, i)

\* the leftmost of the matches that start at pos or later
NextMatch(all, pos) ==
    The({IF later = {} THEN NoMatch
         ELSE CHOOSE m \in later : \A o \in later : m.start <= o.start :
         later \in {{m \in all : m.start >= pos}}})

\* the matches among `all` from offset pos on, leftmost first, none
\* overlapping another
RECURSIVE Leftmost(_, _)
Leftmost(all, pos) ==
    The({IF m = NoMatch THEN << >> ELSE <<m>> \o Leftmost(all, m.end) :
         m \in {NextMatch(all, pos)}})

\* list(re.finditer(pattern, s)): whether a pattern matches at an offset does
\* not depend on where the search started, and no pattern of the program
\* matches the empty text
FindAll(pat, s) ==
    The({Leftmost(all, 0) :
         all \in {{MatchAt(pat, s, i) : i \in 0 .. Len(s) - 1} \ {NoMatch}}})

\* match.group()
Group0(s, m) == Slice(s, m.start, m.end)

\* a text with the matches of a pattern in it
Matched(pat, text) ==
    The({[s |-> s, matches |-> FindAll(pat, s)] : s \in {text}})

\* the text between the matches of f, with repl in the place of each match
Substituted(f, repl) ==
    Concat([k \in 1 .. Len(f.matches) |->
               Slice(f.s, IF k = 1 THEN 0 ELSE f.matches[k - 1].end,
                     f.matches[k].start) \o repl])
        \o SliceFrom(f.s, IF f.matches = << >> THEN 0
                          ELSE f.matches[Len(f.matches)].end)

\* re.sub(pattern, repl, text)
Sub(pat, repl, text) == The({Substituted(f, repl) : f \in {Matched(pat, text)}})

(* -------------------------- Lexical-Stripper --------------------------- *)

remove_comments(shader_code) ==
    Sub("block_comment", << >>, Sub("line_comment", << >>, shader_code))

\* a collapse that deletes a run instead of leaving one space in its place
remove_whitespace_NoSpace(shader_code) ==
    Sub("space_run", << >>, Sub("ends", << >>, shader_code))

remove_whitespace(shader_code) ==
    Sub("space_run", <<" ">>, Sub("ends", << >>, shader_code))

(* ------------------------ Declaration-Normalizer ----------------------- *)

\* f"{var_type} {var_name}"
DeclKey(match) == match.groups[1] \o <<" ">> \o match.groups[2]

\* variable_declarations after the declaration text of match is recorded
Recorded(decls, s, match) ==
    IF DeclKey(match) \in DOMAIN decls
    THEN [decls EXCEPT ![DeclKey(match)] = Append(@, Group0(s, match))]
    ELSE decls @@ (DeclKey(match) :> <<Group0(s, match)>>)

\* the loop of remove_redundant_variables from the k-th match on;
\* decls is variable_declarations, out is new_shader_code
RECURSIVE RedundantLoop(_, _, _, _, _, _)
RedundantLoop(s, matches, k, decls, out, start) ==
    IF k > Len(matches) THEN out \o SliceFrom(s, start)
    ELSE The({RedundantLoop(s, matches, k + 1, decls2,
                            out \o Slice(s, start, matches[k].start)
                                \o decls2[DeclKey(matches[k])][1],
                            matches[k].end) :
              decls2 \in {Recorded(decls, s, matches[k])}})

\* a pass that emits match.group() in place of the first text of its key
remove_redundant_variables_Keep(shader_code) == shader_code

remove_redundant_variables(shader_code) ==
    The({RedundantLoop(f.s, f.matches, 1, << >>, << >>, 0) :
         f \in {Matched("var_decl", shader_code)}})

\* f"{current_var_type} {current_var_names}{current_var_sizes if ... else ''};"
MergedDecl(st) == st.type \o <<" ">> \o st.names \o st.sizes \o <<";">>

\* the state of combine_variable_declarations before its loop
CombineInit ==
    [type |-> << >>, names |-> << >>, sizes |-> << >>,
     var_declarations |-> << >>, new_shader_code |-> << >>, start |-> 0]

\* an iteration that opens a new group at every declaration, merging none
CombineStep_NoMerge(s, st, match) ==
    LET flushed ==
            IF st.type = << >> THEN st
            ELSE [st EXCEPT !.var_declarations = Append(@, MergedDecl(st))]
    IN  [flushed EXCEPT
            !.type = match.groups[1], !.names = match.groups[2],
            !.sizes = match.groups[3],
            !.new_shader_code = @ \o Slice(s, st.start, match.start),
            !.start = match.end]

\* one iteration of the loop of combine_variable_declarations
CombineStep(s, st, match) ==
    LET var_type == match.groups[1]
        var_name == match.groups[2]
        var_size == match.groups[3]
        grouped ==
            IF st.type = << >>
            THEN [st EXCEPT !.type = var_type, !.names = var_name,
                            !.sizes = var_size]
            ELSE IF st.type = var_type
            THEN [st EXCEPT !.names = @ \o <<",", " ">> \o var_name,
                            !.sizes = IF var_size # << >>
                                      THEN @ \o <<",", " ">> \o var_size
                                      ELSE @]
            ELSE [st EXCEPT !.var_declarations = Append(@, MergedDecl(st)),
                            !.type = var_type, !.names = var_name,
                            !.sizes = var_size]
    IN  [grouped EXCEPT
            !.new_shader_code = @ \o Slice(s, st.start, match.start),
            !.start = match.end]

RECURSIVE CombineLoop(_, _, _, _)
CombineLoop(s, matches, k, st) ==
    IF k > Len(matches) THEN st
    ELSE The({CombineLoop(s, matches, k + 1, next) :
              next \in {CombineStep(s, st, matches[k])}})

\* the flush after the loop
Flushed(st) ==
    IF st.type # << >>
    THEN [st EXCEPT !.var_declarations = Append(@, MergedDecl(st))]
    ELSE st

\* the state of combine_variable_declarations after the last flush
CombineFinal(shader_code) ==
    The({The({Flushed(st) :
              st \in {CombineLoop(f.s, f.matches, 1, CombineInit)}}) :
         f \in {Matched("var_decl", shader_code)}})

\* var_declarations when combine_variable_declarations returns
MergedDeclarations(shader_code) == CombineFinal(shader_code).var_declarations

\* an output that drops the text before and between the matches
combine_variable_declarations_DropGaps(shader_code) ==
    The({Join(<<"\n">>, st.var_declarations)
             \o <<"\n">> \o SliceFrom(shader_code, st.start) :
         st \in {CombineFinal(shader_code)}})

combine_variable_declarations(shader_code) ==
    The({st.new_shader_code \o Join(<<"\n">>, st.var_declarations)
             \o <<"\n">> \o SliceFrom(shader_code, st.start) :
         st \in {CombineFinal(shader_code)}})

remove_empty_lines(shader_code) == Sub("empty_lines", <<"\n">>, shader_code)

(* ----------------------------- Brace-Scanner --------------------------- *)

\* the while loop of find_function_body and find_loop_body: end_index when
\* the loop is left
ScanBraces(s, start_index) ==
    LET scan[end_index \in Nat, open_braces \in Nat] ==
            IF open_braces > 0 /\ end_index < Len(s)
            THEN scan[end_index + 1,
                      IF At(s, end_index) = "{" THEN open_braces + 1
                      ELSE IF At(s, end_index) = "}" THEN open_braces - 1
                      ELSE open_braces]
            ELSE end_index
    IN  scan[start_index, 1]

find_function_body(shader_code, start_index) ==
    Slice(shader_code, start_index, ScanBraces(shader_code, start_index))

find_loop_body(shader_code, start_index) ==
    Slice(shader_code, start_index, ScanBraces(shader_code, start_index))

(* ---------------------------- Callable-Inliner ------------------------- *)

RECURSIVE InlineLoop(_, _, _, _, _)
InlineLoop(s, matches, k, out, start) ==
    IF k > Len(matches) THEN out \o SliceFrom(s, start)
    ELSE The({IF Len(function_body) < SMALL_BODY
              THEN InlineLoop(s, matches, k + 1,
                              out \o Slice(s, start, matches[k].start)
                                  \o function_body,
                              matches[k].end + Len(function_body) + 1)
              ELSE InlineLoop(s, matches, k + 1,
                              out \o Slice(s, start, matches[k].end + 1),
                              matches[k].end + 1) :
              function_body \in {find_function_body(s, matches[k].end)}})

inline_functions(shader_code) ==
    The({InlineLoop(f.s, f.matches, 1, << >>, 0) :
         f \in {Matched("function", shader_code)}})

(* ------------------------------ Loop-Unroller -------------------------- *)

UNROLLED_BLOCK ==
    <<"\n", " ", " ", " ", " ", " ", " ", " ", " ", "{",
      "\n", " ", " ", " ", " ", " ", " ", " ", " ", " ", " ", " ", " ",
      "/", "/", " ", "U", "n", "r", "o", "l", "l", "e", "d", " ",
      "l", "o", "o", "p", " ", "b", "o", "d", "y",
      "\n", " ", " ", " ", " ", " ", " ", " ", " ", "}",
      "\n", " ", " ", " ", " ">>

\* loop_body.replace('for (int i = 0; i < 10; i++)', '...')
unroll_loop(loop_body) == Sub("loop_header", UNROLLED_BLOCK, loop_body)

RECURSIVE UnrollLoop(_, _, _, _, _)
UnrollLoop(s, matches, k, out, start) ==
    IF k > Len(matches) THEN out \o SliceFrom(s, start)
    ELSE The({IF Len(loop_body) < SMALL_BODY
              THEN UnrollLoop(s, matches, k + 1,
                              out \o Slice(s, start, matches[k].start)
                                  \o unroll_loop(loop_body),
                              matches[k].end + Len(loop_body) + 1)
              ELSE UnrollLoop(s, matches, k + 1,
                              out \o Slice(s, start, matches[k].end + 1),
                              matches[k].end + 1) :
              loop_body \in {find_loop_body(s, matches[k].end)}})

unroll_loops(shader_code) ==
    The({UnrollLoop(f.s, f.matches, 1, << >>, 0) :
         f \in {Matched("loop", shader_code)}})

(* ------------------------------ Uniform-Folder ------------------------- *)

U_TIME == <<"u", "_", "t", "i", "m", "e">>

U_RESOLUTION == <<"u", "_", "r", "e", "s", "o", "l", "u", "t", "i", "o", "n">>

\* the dictionary uniform_values
uniform_values ==
    (U_TIME :> <<"0", ".", "0">>)
    @@ (U_RESOLUTION :> <<"v", "e", "c", "2", "(", "1", "0", "2", "4", ".",
                          "0", ",", " ", "7", "6", "8", ".", "0", ")">>)

\* the value None
None == <<"None">>

get_uniform_value(uniform_name) ==
    IF uniform_name \in DOMAIN uniform_values
    THEN uniform_values[uniform_name]
    ELSE None

\* f"{uniform_type} {uniform_name} = {uniform_value};"
FoldedUniform(match) ==
    match.groups[1] \o <<" ">> \o match.groups[2] \o <<" ", "=", " ">>
        \o get_uniform_value(match.groups[2]) \o <<";">>

RECURSIVE UniformLoop(_, _, _, _, _)
UniformLoop(s, matches, k, out, start) ==
    IF k > Len(matches) THEN out \o SliceFrom(s, start)
    ELSE IF get_uniform_value(matches[k].groups[2]) # None
    THEN UniformLoop(s, matches, k + 1,
                     out \o Slice(s, start, matches[k].start)
                         \o FoldedUniform(matches[k]),
                     matches[k].end)
    ELSE UniformLoop(s, matches, k + 1, out, start)

\* a loop that skips the span of a declaration it has no value for
RECURSIVE UniformLoop_Drop(_, _, _, _, _)
UniformLoop_Drop(s, matches, k, out, start) ==
    IF k > Len(matches) THEN out \o SliceFrom(s, start)
    ELSE IF get_uniform_value(matches[k].groups[2]) # None
    THEN UniformLoop_Drop(s, matches, k + 1,
                          out \o Slice(s, start, matches[k].start)
                              \o FoldedUniform(matches[k]),
                          matches[k].end)
    ELSE UniformLoop_Drop(s, matches, k + 1,
                          out \o Slice(s, start, matches[k].start),
                          matches[k].end)

\* a folder that skips the span of a declaration it has no value for
replace_uniform_variables_Drop(shader_code) ==
    The({UniformLoop_Drop(f.s, f.matches, 1, << >>, 0) :
         f \in {Matched("uniform", shader_code)}})

replace_uniform_variables(shader_code) ==
    The({UniformLoop(f.s, f.matches, 1, << >>, 0) :
         f \in {Matched("uniform", shader_code)}})

(* -------------------------- Texture-Call-Optimizer --------------------- *)

optimize_texture_lookup(texture_call) == texture_call

RECURSIVE TextureLoop(_, _, _, _, _)
TextureLoop(s, matches, k, out, start) ==
    IF k > Len(matches) THEN out \o SliceFrom(s, start)
    ELSE The({IF optimized_call # Group0(s, matches[k])
              THEN TextureLoop(s, matches, k + 1,
                               out \o Slice(s, start, matches[k].start)
                                   \o optimized_call,
                               matches[k].end)
              ELSE TextureLoop(s, matches, k + 1,
                               out \o Slice(s, start, matches[k].end),
                               matches[k].end) :
              optimized_call \in
                  {optimize_texture_lookup(Group0(s, matches[k]))}})

optimize_texture_lookups(shader_code) ==
    The({TextureLoop(f.s, f.matches, 1, << >>, 0) :
         f \in {Matched("texture", shader_code)}})

(* ------------------------------- state --------------------------------- *)

VARIABLES
    pc,                \* the position of the run
    shader_code,       \* the text read from the input file / the argument
    start_index,       \* the offset argument of the Brace-Scanner
    optimized_code,    \* the buffer handed from stage to stage / the result
    initial_size,
    optimized_size,
    boost_percentage,  \* in hundredths of a percent
    output_file        \* the text written to the output file

vars == <<pc, shader_code, start_index, optimized_code, initial_size,
          optimized_size, boost_percentage, output_file>>

\* "not yet assigned"
Unset == <<"unset">>

(* ------------------------------- inputs -------------------------------- *)

\* the concatenations of at most n fragments of V
RECURSIVE Texts(_, _)
Texts(V, n) ==
    IF n = 0 THEN {<< >>}
    ELSE {<< >>} \cup {p \o f : p \in Texts(V, n - 1), f \in V}

\* the texts over the alphabet A of length at most n
RECURSIVE Words(_, _)
Words(A, n) ==
    IF n = 0 THEN {<< >>}
    ELSE {<< >>} \cup {Append(w, c) : w \in Words(A, n - 1), c \in A}

\* uniform float u_unknown;
F_UNKNOWN ==
    <<"u", "n", "i", "f", "o", "r", "m", " ", "f", "l", "o", "a", "t", " ",
      "u", "_", "u", "n", "k", "n", "o", "w", "n", ";">>

\* uniform float u_time;
F_TIME ==
    <<"u", "n", "i", "f", "o", "r", "m", " ", "f", "l", "o", "a", "t", " ",
      "u", "_", "t", "i", "m", "e", ";">>

\* uniform vec2 u_resolution;
F_RESOLUTION ==
    <<"u", "n", "i", "f", "o", "r", "m", " ", "v", "e", "c", "2", " ", "u",
      "_", "r", "e", "s", "o", "l", "u", "t", "i", "o", "n", ";">>

\* uniform int k[2];
F_ARRAY ==
    <<"u", "n", "i", "f", "o", "r", "m", " ", "i", "n", "t", " ", "k", "[",
      "2", "]", ";">>

\* x=1;
F_ASSIGN ==
    <<"x", "=", "1", ";">>

\* int a;
F_INT_A ==
    <<"i", "n", "t", " ", "a", ";">>

\* int a [3];
F_INT_A3 ==
    <<"i", "n", "t", " ", "a", " ", "[", "3", "]", ";">>

\* int b;
F_INT_B ==
    <<"i", "n", "t", " ", "b", ";">>

\* int b[2];
F_INT_B2 ==
    <<"i", "n", "t", " ", "b", "[", "2", "]", ";">>

\* float c;
F_FLOAT_C ==
    <<"f", "l", "o", "a", "t", " ", "c", ";">>

\* void f(){a;}
F_SMALL_F ==
    <<"v", "o", "i", "d", " ", "f", "(", ")", "{", "a", ";", "}">>

\* int g(int p) { return p; }
F_SMALL_G ==
    <<"i", "n", "t", " ", "g", "(", "i", "n", "t", " ", "p", ")", " ", "{",
      " ", "r", "e", "t", "u", "r", "n", " ", "p", ";", " ", "}">>

\* float h(){return 0.0 + 1.0 + 2.0 + 3.0 + 4.0 + 5.0 + 6.0 + 7.0;}
F_LARGE_H ==
    <<"f", "l", "o", "a", "t", " ", "h", "(", ")", "{", "r", "e", "t", "u",
      "r", "n", " ", "0", ".", "0", " ", "+", " ", "1", ".", "0", " ", "+",
      " ", "2", ".", "0", " ", "+", " ", "3", ".", "0", " ", "+", " ", "4",
      ".", "0", " ", "+", " ", "5", ".", "0", " ", "+", " ", "6", ".", "0",
      " ", "+", " ", "7", ".", "0", ";", "}">>

\* for (int j = 0; j < 5; j++) { x; }
F_LOOP_J ==
    <<"f", "o", "r", " ", "(", "i", "n", "t", " ", "j", " ", "=", " ", "0",
      ";", " ", "j", " ", "<", " ", "5", ";", " ", "j", "+", "+", ")", " ",
      "{", " ", "x", ";", " ", "}">>

\* for (int i = 0; i < 10; i++) { x; }
F_LOOP_I ==
    <<"f", "o", "r", " ", "(", "i", "n", "t", " ", "i", " ", "=", " ", "0",
      ";", " ", "i", " ", "<", " ", "1", "0", ";", " ", "i", "+", "+", ")",
      " ", "{", " ", "x", ";", " ", "}">>

\* for(;;){s = s + 1.0 + 2.0 + 3.0 + 4.0 + 5.0 + 6.0 + 7.0 + 8.0;}
F_LOOP_LARGE ==
    <<"f", "o", "r", "(", ";", ";", ")", "{", "s", " ", "=", " ", "s", " ",
      "+", " ", "1", ".", "0", " ", "+", " ", "2", ".", "0", " ", "+", " ",
      "3", ".", "0", " ", "+", " ", "4", ".", "0", " ", "+", " ", "5", ".",
      "0", " ", "+", " ", "6", ".", "0", " ", "+", " ", "7", ".", "0", " ",
      "+", " ", "8", ".", "0", ";", "}">>

\* // c
F_LINE ==
    <<"/", "/", " ", "c">>

\* /* c */
F_BLOCK ==
    <<"/", "*", " ", "c", " ", "*", "/">>

\* vec4 t = texture(s, p);
F_TEXTURE ==
    <<"v", "e", "c", "4", " ", "t", " ", "=", " ", "t", "e", "x", "t", "u",
      "r", "e", "(", "s", ",", " ", "p", ")", ";">>

UniformFrags ==
    {F_UNKNOWN, F_TIME, F_RESOLUTION, F_ARRAY, F_ASSIGN, <<" ">>}

MergeFrags == {F_INT_A, F_INT_B2, F_FLOAT_C, F_ASSIGN, <<" ">>}

DedupFrags == {F_INT_A, F_INT_A3, F_INT_B, F_FLOAT_C, F_ASSIGN, <<" ">>}

InlineFrags == {F_SMALL_F, F_SMALL_G, F_LARGE_H, <<"Z">>, <<" ">>}

LoopFrags == {F_LOOP_J, F_LOOP_I, F_LOOP_LARGE, <<"Z">>, <<" ">>}

BraceAlphabet == {"{", "}", "a"}

StripAlphabet == {"/", "*", "\n", " ", "a"}

PipelineFrags ==
    {F_INT_A, F_INT_B, F_RESOLUTION, F_LOOP_I, F_SMALL_F, F_LINE, F_BLOCK,
     F_TEXTURE, <<"\n">>}

(* ---------------------------- optimize_shader --------------------------- *)

\* round(100 * (initial_size - optimized_size) / initial_size, 2) in
\* hundredths of a percent; an exact tie between two hundredths falls to
\* either side, as the binary quotient decides
Rounded(num, den) ==
    LET q == (10000 * num) \div den
        r == (10000 * num) % den
    IN  IF 2 * r < den THEN {q}
        ELSE IF 2 * r > den THEN {q + 1}
        ELSE {q, q + 1}

Stay == UNCHANGED <<shader_code, start_index, initial_size, optimized_size,
                    boost_percentage, output_file>>

Init ==
    /\ pc = "start"
    /\ shader_code \in Texts(PipelineFrags, MaxFrags)
    /\ start_index = 0
    /\ optimized_code = Unset
    /\ initial_size = -1
    /\ optimized_size = -1
    /\ boost_percentage = -1
    /\ output_file = Unset

RecordInitialSize ==
    /\ pc = "start"
    /\ initial_size' = Len(shader_code)
    /\ pc' = "remove_comments"
    /\ UNCHANGED <<shader_code, start_index, optimized_code, optimized_size,
                   boost_percentage, output_file>>

RemoveComments ==
    /\ pc = "remove_comments"
    /\ optimized_code' = remove_comments(shader_code)
    /\ pc' = "remove_whitespace"
    /\ Stay

RemoveWhitespace ==
    /\ pc = "remove_whitespace"
    /\ optimized_code' = remove_whitespace(optimized_code)
    /\ pc' = "remove_redundant_variables"
    /\ Stay

RemoveRedundantVariables ==
    /\ pc = "remove_redundant_variables"
    /\ optimized_code' = remove_redundant_variables(optimized_code)
    /\ pc' = "combine_variable_declarations"
    /\ Stay

CombineVariableDeclarations ==
    /\ pc = "combine_variable_declarations"
    /\ optimized_code' = combine_variable_declarations(optimized_code)
    /\ pc' = "remove_empty_lines"
    /\ Stay

RemoveEmptyLines ==
    /\ pc = "remove_empty_lines"
    /\ optimized_code' = remove_empty_lines(optimized_code)
    /\ pc' = "inline_functions"
    /\ Stay

InlineFunctions ==
    /\ pc = "inline_functions"
    /\ optimized_code' = inline_functions(optimized_code)
    /\ pc' = "unroll_loops"
    /\ Stay

UnrollLoops ==
    /\ pc = "unroll_loops"
    /\ optimized_code' = unroll_loops(optimized_code)
    /\ pc' = "replace_uniform_variables"
    /\ Stay

ReplaceUniformVariables ==
    /\ pc = "replace_uniform_variables"
    /\ optimized_code' = replace_uniform_variables(optimized_code)
    /\ pc' = "optimize_texture_lookups"
    /\ Stay

OptimizeTextureLookups ==
    /\ pc = "optimize_texture_lookups"
    /\ optimized_code' = optimize_texture_lookups(optimized_code)
    /\ pc' = "optimized_size"
    /\ Stay

RecordOptimizedSize ==
    /\ pc = "optimized_size"
    /\ optimized_size' = Len(optimized_code)
    /\ pc' = "boost_percentage"
    /\ UNCHANGED <<shader_code, start_index, optimized_code, initial_size,
                   boost_percentage, output_file>>

\* line 40 and the three prints after it; a division by zero raises
\* ZeroDivisionError, which nothing catches
ComputeBoost ==
    /\ pc = "boost_percentage"
    /\ IF initial_size = 0
       THEN /\ pc' = "ZeroDivisionError"
            /\ UNCHANGED boost_percentage
       ELSE /\ boost_percentage'
                \in Rounded(initial_size - optimized_size, initial_size)
            /\ pc' = "write"
    /\ UNCHANGED <<shader_code, start_index, optimized_code, initial_size,
                   optimized_size, output_file>>

WriteOutput ==
    /\ pc = "write"
    /\ output_file' = optimized_code
    /\ pc' = "return"
    /\ UNCHANGED <<shader_code, start_index, optimized_code, initial_size,
                   optimized_size, boost_percentage>>

Next ==
    \/ RecordInitialSize
    \/ RemoveComments
    \/ RemoveWhitespace
    \/ RemoveRedundantVariables
    \/ CombineVariableDeclarations
    \/ RemoveEmptyLines
    \/ InlineFunctions
    \/ UnrollLoops
    \/ ReplaceUniformVariables
    \/ OptimizeTextureLookups
    \/ RecordOptimizedSize
    \/ ComputeBoost
    \/ WriteOutput

Spec == Init /\ [][Next]_vars

(* ------------------------- one stage on its own ------------------------ *)

\* a call of one function: shader_code is the argument, optimized_code the
\* value returned
CallInit(texts) ==
    /\ pc = "call"
    /\ shader_code \in texts
    /\ start_index = 0
    /\ optimized_code = Unset
    /\ initial_size = -1
    /\ optimized_size = -1
    /\ boost_percentage = -1
    /\ output_file = Unset

Return(value) ==
    /\ pc = "call"
    /\ optimized_code' = value
    /\ pc' = "returned"
    /\ Stay

CallStrip == Return(remove_whitespace(remove_comments(shader_code)))

CallRemoveRedundantVariables == Return(remove_redundant_variables(shader_code))

CallCombineVariableDeclarations ==
    Return(combine_variable_declarations(shader_code))

CallInlineFunctions == Return(inline_functions(shader_code))

CallUnrollLoops == Return(unroll_loops(shader_code))

CallReplaceUniformVariables == Return(replace_uniform_variables(shader_code))

CallFindFunctionBody ==
    /\ start_index <= Len(shader_code)
    /\ Return(find_function_body(shader_code, start_index))

CallFindLoopBody ==
    /\ start_index <= Len(shader_code)
    /\ Return(find_loop_body(shader_code, start_index))

SpecDedup ==
    CallInit(Texts(DedupFrags, MaxFrags))
        /\ [][CallRemoveRedundantVariables]_vars

SpecMerge ==
    CallInit(Texts(MergeFrags, MaxFrags))
        /\ [][CallCombineVariableDeclarations]_vars

SpecInline ==
    CallInit(Texts(InlineFrags, MaxFrags)) /\ [][CallInlineFunctions]_vars

SpecUnroll ==
    CallInit(Texts(LoopFrags, MaxFrags)) /\ [][CallUnrollLoops]_vars

SpecUniform ==
    CallInit(Texts(UniformFrags, MaxFrags))
        /\ [][CallReplaceUniformVariables]_vars

SpecStrip == CallInit(Words(StripAlphabet, MaxLen)) /\ [][CallStrip]_vars

SpecBrace ==
    /\ pc = "call"
    /\ shader_code \in Words(BraceAlphabet, MaxLen)
    /\ start_index \in 0 .. Len(shader_code)
    /\ optimized_code = Unset
    /\ initial_size = -1
    /\ optimized_size = -1
    /\ boost_percentage = -1
    /\ output_file = Unset
    /\ [][CallFindFunctionBody \/ CallFindLoopBody]_vars

(* ------------------------- shared by the claims ------------------------ *)

\* the least element of a set of integers
Minimum(S) == CHOOSE x \in S : \A y \in S : x <= y

\* the text of s before the k-th match and after the match before it
GapBefore(s, matches, k) ==
    Slice(s, IF k = 1 THEN 0 ELSE matches[k - 1].end, matches[k].start)

\* the text of s after the last match
TailAfter(s, matches) ==
    SliceFrom(s, IF matches = << >> THEN 0 ELSE matches[Len(matches)].end)

\* s with the k-th match replaced by piece[k], everything else kept
Rewritten(s, matches, piece) ==
    Concat([k \in 1 .. Len(matches) |-> GapBefore(s, matches, k) \o piece[k]])
        \o TailAfter(s, matches)

Returned == pc = "returned"

(* -------------------------------- C1 ----------------------------------- *)

UniformMatches == FindAll("uniform", shader_code)

KnownUniform(m) == m.groups[2] \in {U_TIME, U_RESOLUTION}

\* what the Uniform-Folder is to put in place of a match: the initializer
\* for a known name, and `unknown` for a name that is not in the table
UniformPieces(unknown) ==
    [k \in 1 .. Len(UniformMatches) |->
        IF KnownUniform(UniformMatches[k])
        THEN UniformMatches[k].groups[1] \o <<" ">>
                 \o UniformMatches[k].groups[2] \o <<" ", "=", " ">>
                 \o uniform_values[UniformMatches[k].groups[2]] \o <<";">>
        ELSE unknown[k]]

\* C1 as stated: replace_uniform_variables puts the empty text in place of
\* every uniform declaration whose name is not a key of the uniform table,
\* wherever it stands among the other uniform declarations.
C1_UnknownUniformDeleted ==
    Returned =>
        optimized_code =
            Rewritten(shader_code, UniformMatches,
                      UniformPieces([k \in 1 .. Len(UniformMatches) |-> << >>]))

\* C1 as amended: replace_uniform_variables leaves every uniform declaration
\* whose name is not a key of the uniform table in the output, unchanged and
\* in its place, wherever it stands among the other uniform declarations;
\* only the declarations of known names are rewritten.
C1_UnknownUniformKept ==
    Returned =>
        optimized_code =
            Rewritten(shader_code, UniformMatches,
                      UniformPieces([k \in 1 .. Len(UniformMatches) |->
                                        Group0(shader_code, UniformMatches[k])]))

\* an unknown uniform before and after a known one has been through the folder
C1_Witness ==
    /\ Returned
    /\ Len(UniformMatches) = 3
    /\ ~KnownUniform(UniformMatches[1])
    /\ KnownUniform(UniformMatches[2])
    /\ ~KnownUniform(UniformMatches[3])
    /\ optimized_code # shader_code

(* ----------------------------- C5 and C10 ------------------------------ *)

DeclMatches == FindAll("var_decl", shader_code)

DeclType(k) == DeclMatches[k].groups[1]

DeclName(k) == DeclMatches[k].groups[2]

DeclSize(k) == DeclMatches[k].groups[3]

\* the declarations that open a maximal run of one type-name
RunStarts ==
    {k \in 1 .. Len(DeclMatches) : k = 1 \/ DeclType(k) # DeclType(k - 1)}

\* the last declaration of the run that the declaration k opens
RunEnd(k) ==
    Minimum({j \in k .. Len(DeclMatches) :
                j = Len(DeclMatches) \/ DeclType(j + 1) # DeclType(k)})

\* the elements of a set of numbers in increasing order
RECURSIVE Sorted(_)
Sorted(S) ==
    IF S = {} THEN << >> ELSE <<Minimum(S)>> \o Sorted(S \ {Minimum(S)})

\* name1, name2, ... of the run k .. RunEnd(k)
RunNames(k) == Join(<<",", " ">>, [i \in 1 .. RunEnd(k) - k + 1 |-> DeclName(k + i - 1)])

\* the array sizes of the run as the code appends them: the size of the
\* first declaration, then ", size" for each later size that is not empty
RunSizes(k) ==
    DeclSize(k)
        \o Concat([i \in 1 .. RunEnd(k) - k |->
                      IF DeclSize(k + i) # << >>
                      THEN <<",", " ">> \o DeclSize(k + i)
                      ELSE << >>])

\* one merged declaration per run, in source order
RunDeclarations(withSizes) ==
    [r \in 1 .. Cardinality(RunStarts) |->
        LET k == Sorted(RunStarts)[r]
        IN  DeclType(k) \o <<" ">> \o RunNames(k)
                \o (IF withSizes THEN RunSizes(k) ELSE << >>) \o <<";">>]

\* the texts before the first match and between the matches, in order
DeclGaps ==
    Concat([k \in 1 .. Len(DeclMatches) |->
               GapBefore(shader_code, DeclMatches, k)])

\* the merged declarations stand in the output as one block, a newline
\* between two of them and after the last, right after the gap texts
BlockEmitted(declarations) ==
    Slice(optimized_code, Len(DeclGaps),
          Len(DeclGaps) + Len(Join(<<"\n">>, declarations)) + 1)
        = Join(<<"\n">>, declarations) \o <<"\n">>

\* C5 as stated: combine_variable_declarations emits each maximal run of
\* consecutive declarations of one type-name as exactly one declaration
\* `type name1, name2, ...;`, names in source order, so that there are as
\* many emitted declarations as runs.
C5_OneDeclarationPerRun ==
    Returned =>
        /\ MergedDeclarations(shader_code) = RunDeclarations(FALSE)
        /\ BlockEmitted(RunDeclarations(FALSE))

\* C5 as amended: each maximal run is emitted as exactly one declaration
\* `type name1, name2, ...<sizes>;`, names in source order, where <sizes> is
\* the array size captured from the first declaration of the run followed by
\* `, size` for every later declaration of the run that has a size (empty
\* when no declaration of the run has one); there are as many emitted
\* declarations as runs.
C5_OneDeclarationPerRunWithSizes ==
    Returned =>
        /\ MergedDeclarations(shader_code) = RunDeclarations(TRUE)
        /\ Len(MergedDeclarations(shader_code)) = Cardinality(RunStarts)
        /\ BlockEmitted(RunDeclarations(TRUE))

\* two runs, the first of two declarations, one of them with an array size
C5_Witness ==
    /\ Returned
    /\ Len(DeclMatches) = 3
    /\ RunStarts = {1, 3}
    /\ DeclSize(2) # << >>
    /\ Len(MergedDeclarations(shader_code)) = 2

\* C10 as stated: the output of combine_variable_declarations is the block
\* of merged declarations followed by the text after the last match, and
\* nothing else: the text before the first match and between two matches is
\* dropped.
C10_GapsDropped ==
    Returned =>
        optimized_code =
            Join(<<"\n">>, MergedDeclarations(shader_code)) \o <<"\n">>
                \o TailAfter(shader_code, DeclMatches)

\* C10 as amended: the output is the text before the first match and
\* between consecutive matches, kept in source order, followed by the block
\* of merged declarations, a newline and the text after the last match, and
\* nothing else: only the matched declarations leave their place.
C10_GapsKeptBeforeBlock ==
    Returned =>
        optimized_code =
            DeclGaps \o Join(<<"\n">>, MergedDeclarations(shader_code))
                \o <<"\n">> \o TailAfter(shader_code, DeclMatches)

\* a text with something before a declaration and something after it
C10_Witness ==
    /\ Returned
    /\ Len(DeclMatches) >= 1
    /\ DeclGaps # << >>
    /\ TailAfter(shader_code, DeclMatches) # << >>
    /\ optimized_code # shader_code

(* -------------------------------- C6 ----------------------------------- *)

\* the first declaration with the type and the name of the declaration k
FirstOfKey(k) ==
    Minimum({j \in 1 .. k :
                DeclType(j) = DeclType(k) /\ DeclName(j) = DeclName(k)})

C7_StripIdempotent ==
    Returned =>
        remove_whitespace(remove_comments(optimized_code)) = optimized_code

\* a text that lost a comment and a whitespace run, and kept a / or a *
C7_Witness ==
    /\ Returned
    /\ remove_comments(shader_code) # shader_code
    /\ remove_whitespace(remove_comments(shader_code))
           # remove_comments(shader_code)
    /\ \E i \in 1 .. Len(optimized_code) : optimized_code[i] \in {"/", "*"}

(* -------------------------------- C4 ----------------------------------- *)

\* the brace depth after the characters s[start .. j] when it is 1 before
DepthAfter(s, start, j) ==
    1 + Cardinality({i \in start .. j : At(s, i) = "{"})
      - Cardinality({i \in start .. j : At(s, i) = "}"})

\* the offsets of s from start on at which the depth is 0
ClosingOffsets(s, start) ==
    {j \in start .. Len(s) - 1 : DepthAfter(s, start, j) = 0}

\* the body the Brace-Scanner is to return: up to, and without, the } that
\* brings the depth to 0, or to the end of the text when there is none
BodyWithoutBrace(s, start) ==
    IF ClosingOffsets(s, start) = {} THEN SliceFrom(s, start)
    ELSE Slice(s, start, Minimum(ClosingOffsets(s, start)))

\* C4: find_function_body and find_loop_body return the text from the start
\* offset up to, and excluding, the } at which the depth reaches 0, and the
\* text to the end when the depth never reaches 0.
C4_BodyExcludesClosingBrace ==
    Returned => optimized_code = BodyWithoutBrace(shader_code, start_index)

(* -------------------------------- C2 ----------------------------------- *)

FunctionMatches == FindAll("function", shader_code)

\* the offset after the definition that the k-th match opens: after its
\* closing brace, or the end of the text when it has none
DefinitionEnd(k) ==
    Min(Len(shader_code),
        FunctionMatches[k].end
            + Len(BodyWithoutBrace(shader_code, FunctionMatches[k].end)) + 1)

\* no definition opens inside the definition before it
DefinitionsApart ==
    \A k \in 2 .. Len(FunctionMatches) :
        DefinitionEnd(k - 1) <= FunctionMatches[k].start

\* the offset after the definition before the k-th, 0 before the first
DefinitionStartGap(k) == IF k = 1 THEN 0 ELSE DefinitionEnd(k - 1)

\* the body of the k-th definition, without its braces
DefinitionBody(k) == BodyWithoutBrace(shader_code, FunctionMatches[k].end)

\* what is to stand in place of the k-th definition: the bare body of a
\* small one, the unchanged text of a large one
DefinitionInlined(k) ==
    IF Len(DefinitionBody(k)) < SMALL_BODY THEN DefinitionBody(k)
    ELSE Slice(shader_code, FunctionMatches[k].start, DefinitionEnd(k))

\* C2: inline_functions puts, in place of every definition whose body is
\* shorter than 50 characters, the body alone (no signature, no opening and
\* no closing brace) and emits every character outside the definitions
\* unchanged, the character after a closing brace included.
C2_SmallBodyStandsAlone ==
    (Returned /\ DefinitionsApart) =>
        optimized_code =
            Concat([k \in 1 .. Len(FunctionMatches) |->
                       Slice(shader_code, DefinitionStartGap(k),
                             FunctionMatches[k].start)
                           \o DefinitionInlined(k)])
                \o SliceFrom(shader_code,
                             DefinitionStartGap(Len(FunctionMatches) + 1))

(* -------------------------------- C3 ----------------------------------- *)

LoopMatches == FindAll("loop", shader_code)

\* the header of the k-th loop: from `for` to its closing parenthesis
LoopHeader(k) ==
    Slice(shader_code, LoopMatches[k].start,
          SkipNot(shader_code, LoopMatches[k].start, {")"}) + 1)

\* C3: unroll_loops leaves a text unchanged when none of its loops has the
\* header `for (int i = 0; i < 10; i++)`, short bodies included.
C3_OtherHeadersUnchanged ==
    (Returned /\ \A k \in 1 .. Len(LoopMatches) : LoopHeader(k) # LOOP_HEADER)
        => optimized_code = shader_code

(* -------------------------------- C8 ----------------------------------- *)

\* C8: the text that optimize_shader returns is not longer than the text it
\* read.
C8_OutputNotLonger ==
    optimized_size # -1 => optimized_size <= initial_size

(* -------------------------------- C9 ----------------------------------- *)

\* C9: a run of optimize_shader on the empty text does not end in an error:
\* the percentage is computed and the output is written.
C9_EmptyInputNoError ==
    Len(shader_code) = 0 => pc # "ZeroDivisionError"

====
